---- MODULE Spec2Model ----
(***************************************************************************)
(* A model of the AgentCore workshop scripts: the two orchestrators        *)
(* (Implement_labs.py, run_workshop.py) with their command-line entry       *)
(* points, and the provisioning stages (lab2.py, lab3.py, lab4.py) and the  *)
(* cleanup sweep (lab6.py) acting on lab_config.json, the SSM parameter     *)
(* store and the remote resources.                                          *)
(*                                                                         *)
(* Two specifications share the variables:                                  *)
(*   SpecOrch   - one process run of either CLI entry point; a stage is     *)
(*                seen from outside (its run() returns True, returns False  *)
(*                or raises).                                               *)
(*   SpecStages - stage runs and sweeps, one after the other, against the   *)
(*                persisted configuration and the remote resources.         *)
(***************************************************************************)
EXTENDS Integers, Sequences, FiniteSets, TLC

\* ------------------------------------------------------------------ values

\* Values are pairs <<kind, n>>, so that any two of them can be compared.
None == <<"None", 0>>

\* An identifier of a kind of resource.
Id(kind, n) == <<kind, n>>

\* The output a successful stage hands to LabOrchestrator (its key output).
Produced == <<"out", 0>>

\* How one call of a stage ends, seen from its caller: run() returned True,
\* run() returned False, the import or the constructor raised before run() was
\* reached, or run() itself raised.
Outcomes == {"ok", "fail", "raise_before", "raise_in"}

\* run() was entered.
RunInvoked(outcome) == outcome # "raise_before"

\* The stage did not succeed.
Failed(outcome) == outcome # "ok"

\* An answer to a Confirm.ask prompt; "none" when the prompt was not shown.
Answers == {"yes", "no"}

\* Number of forward stages (labs 1..5).
NumLabs == 5

\* The stages WorkshopRunner.run_all_labs runs, in order (Lab 3 is only
\* announced, never run).
WorkshopLabs == <<1, 2, 4, 5>>

\* The labs run_workshop.py accepts for --lab.
WorkshopSingleLabs == {1, 2, 4, 5, 6}

VARIABLES
    \* ---- orchestrator process
    prog,           \* "none" | "implement_labs" | "run_workshop"
    mode,           \* "none" | "all" | "lab" | "cleanup" | "help"
    interactive,    \* self.interactive
    pc,             \* position of the process
    idx,            \* position in the list of stages of run_all_labs
    lab_results,    \* LabOrchestrator.lab_results: lab -> [success, out]
    labs_completed, \* WorkshopRunner.labs_completed
    labs_failed,    \* WorkshopRunner.labs_failed
    trace,          \* history: the stages attempted, with outcome and answers
    report,         \* what the final report displayed, NoReport before
    exit_code,      \* NoExit while running, then the process exit code
    checks,         \* history: what check_prerequisites found and was answered
    \* ---- persisted configuration and remote resources
    file,           \* lab_config.json: NoFile or a mapping key -> value
    ssm,            \* SSM parameter store: a mapping name -> value
    gateways,       \* ids of the gateways that exist
    targets,        \* ids of the gateways that hold the Lambda target
    memories,       \* ids of the memory stores that exist
    resources,      \* the conventionally named resources that exist
    last,           \* record of the last stage run or sweep (history)
    cleanup_summary,\* Lab6Implementation.cleanup_summary of the last sweep
    sweeps          \* history: the sweeps run in succession, oldest first

orchVars == <<prog, mode, interactive, pc, idx, lab_results, labs_completed,
              labs_failed, trace, report, exit_code, checks>>
envVars == <<file, ssm, gateways, targets, memories, resources, last,
             cleanup_summary, sweeps>>
vars == <<prog, mode, interactive, pc, idx, lab_results, labs_completed,
          labs_failed, trace, report, exit_code, checks, file, ssm, gateways,
          targets, memories, resources, last, cleanup_summary, sweeps>>

\* A mapping with no key.
EmptyMap == [k \in {} |-> None]

\* The final report before it is produced.
NoReport == [shown |-> FALSE, rows |-> EmptyMap, all_success |-> FALSE,
             completed |-> <<>>, failed |-> <<>>]

\* lab_config.json when it does not exist.
NoFile == [exists |-> FALSE, data |-> EmptyMap]

\* The process has ended (normally, or by an interrupt).
Ended == pc \in {"exited", "interrupted"}

\* ------------------------------------------------- Implement_labs.py

\* The prerequisite checks before they are made.
NoChecks == [done |-> FALSE, credentials |-> TRUE, others |-> TRUE,
             anyway |-> "none"]

\* LabOrchestrator.check_prerequisites: a failed check stops the run only when
\* the interactive user declines to continue anyway.
check_prerequisites(all_passed, inter, ansAnyway) ==
    ~(~all_passed /\ inter /\ ansAnyway = "no")

\* How a call of run_lab_k can end. run_lab_5 passes runtime_arn= to
\* Lab5Implementation, whose constructor takes no such parameter: the call
\* raises TypeError before run() is reached.
LabOutcomes(k) == IF k = 5 THEN {"raise_before"} ELSE Outcomes

\* The argument run_lab_k hands to the stage's constructor: the identifier the
\* previous stage recorded (labs 3, 4 and 5), None when there is none.
ArgFor(results, k) ==
    IF k \in {3, 4, 5} /\ (k - 1) \in DOMAIN results
    THEN results[k - 1].out
    ELSE None

\* run_lab_k, an exception at the stage boundary: nothing is recorded.
RecordRaised(results, k) == results

\* LabOrchestrator.run_lab_1 .. run_lab_5: lab_results after the call. A
\* returned result is recorded with its outputs (None when it failed).
run_lab_k(results, k, outcome) ==
    IF outcome \in {"ok", "fail"}
    THEN (k :> [success |-> (outcome = "ok"),
                out |-> IF outcome = "ok" THEN Produced ELSE None]) @@ results
    ELSE RecordRaised(results, k)

\* A mutant of LoopDecision: a failure in batch mode does not stop the loop.
LoopDecisionNoFailFast(inter, success, isLast, ansFail, ansCont) ==
    IF ~success /\ inter /\ ansFail = "no" THEN "break"
    ELSE IF inter /\ ~isLast /\ ansCont = "no" THEN "break"
    ELSE "next"

\* The body of the loop of LabOrchestrator.run_all_labs after lab_func()
\* returned: break, or go on to the next stage.
LoopDecision(inter, success, isLast, ansFail, ansCont) ==
    IF ~success /\ (~inter \/ ansFail = "no") THEN "break"
    ELSE IF inter /\ ~isLast /\ ansCont = "no" THEN "break"
    ELSE "next"

\* The prompts the loop body showed, as recorded in the history.
FailShown(inter, success) == ~success /\ inter
ContShown(inter, success, isLast, ansFail) ==
    inter /\ ~isLast /\ ~(~success /\ ansFail = "no")

\* LabOrchestrator.show_summary: one row per recorded lab, and the verdict.
show_summary(results) ==
    [shown |-> TRUE,
     rows |-> [k \in DOMAIN results |->
                 IF results[k].success THEN "Success" ELSE "Failed"],
     all_success |-> \A k \in DOMAIN results : results[k].success,
     completed |-> <<>>, failed |-> <<>>]

\* main() of Implement_labs.py: the branch the arguments select.
ImplMode(cleanup, all, lab) ==
    IF cleanup THEN "cleanup"
    ELSE IF all THEN "all"
    ELSE IF lab # 0 THEN "lab"
    ELSE "help"

\* main() of Implement_labs.py: the exit code, by how main() ended. It returns
\* normally whatever the stages returned (exit code 0), calls sys.exit(0) on
\* KeyboardInterrupt and sys.exit(1) on any other exception that reaches it.
ImplExit(how) == IF how = "error" THEN 1 ELSE 0

\* main() of Implement_labs.py starts.
ImplMain(cleanup, all, lab, inter) ==
    /\ pc = "init"
    /\ prog' = "implement_labs"
    /\ mode' = ImplMode(cleanup, all, lab)
    /\ interactive' = inter
    /\ idx' = IF mode' = "lab" THEN lab ELSE 1
    /\ pc' = CASE mode' = "cleanup" -> "lo_cleanup"
              [] mode' = "all" -> "lo_begin"
              [] mode' = "lab" -> "lo_single"
              [] OTHER -> "exited"
    /\ exit_code' = IF mode' = "help" THEN {ImplExit("return")} ELSE {}
    /\ UNCHANGED <<lab_results, labs_completed, labs_failed, trace, report>>
    /\ UNCHANGED checks
    /\ UNCHANGED envVars

\* LabOrchestrator.run_all_labs up to the loop: prerequisites (the AWS
\* credentials check and the three others) and the "Ready to start Lab 1?"
\* prompt. Either early return ends main() normally.
LO_Begin(credentials, others, ansAnyway, ansReady) ==
    /\ pc = "lo_begin"
    /\ LET all_passed == credentials /\ others
       IN /\ checks' = [done |-> TRUE, credentials |-> credentials,
                        others |-> others,
                        anyway |-> IF ~all_passed /\ interactive
                                   THEN ansAnyway ELSE "none"]
          /\ IF check_prerequisites(all_passed, interactive, ansAnyway)
                /\ ~(interactive /\ ansReady = "no")
             THEN pc' = "lo_loop" /\ exit_code' = exit_code
             ELSE pc' = "exited" /\ exit_code' = {ImplExit("return")}
    /\ UNCHANGED <<prog, mode, interactive, idx, lab_results, labs_completed,
                   labs_failed, trace, report>>
    /\ UNCHANGED envVars

\* One iteration of the loop of LabOrchestrator.run_all_labs.
LO_Iter(outcome, ansFail, ansCont) ==
    /\ pc = "lo_loop"
    /\ outcome \in LabOutcomes(idx)
    /\ LET success == outcome = "ok"
           isLast == idx = NumLabs
           d == LoopDecision(interactive, success, isLast, ansFail, ansCont)
       IN /\ lab_results' = run_lab_k(lab_results, idx, outcome)
          /\ trace' = Append(trace,
                [lab |-> idx, outcome |-> outcome,
                 arg |-> ArgFor(lab_results, idx),
                 failAns |-> IF FailShown(interactive, success)
                             THEN ansFail ELSE "none",
                 contAns |-> IF ContShown(interactive, success, isLast, ansFail)
                             THEN ansCont ELSE "none"])
          /\ IF d = "break" \/ isLast
             THEN pc' = "lo_summary" /\ idx' = idx
             ELSE pc' = "lo_loop" /\ idx' = idx + 1
    /\ UNCHANGED <<prog, mode, interactive, labs_completed, labs_failed,
                   report, exit_code>>
    /\ UNCHANGED checks
    /\ UNCHANGED envVars

\* The end of run_all_labs: show_summary, then main() returns.
LO_Summary ==
    /\ pc = "lo_summary"
    /\ report' = show_summary(lab_results)
    /\ pc' = "exited"
    /\ exit_code' = {ImplExit("return")}
    /\ UNCHANGED <<prog, mode, interactive, idx, lab_results, labs_completed,
                   labs_failed, trace>>
    /\ UNCHANGED checks
    /\ UNCHANGED envVars

\* main() with --lab n: one call of run_lab_n, its result dropped.
LO_Single(outcome) ==
    /\ pc = "lo_single"
    /\ outcome \in LabOutcomes(idx)
    /\ lab_results' = run_lab_k(lab_results, idx, outcome)
    /\ trace' = Append(trace, [lab |-> idx, outcome |-> outcome,
                               arg |-> ArgFor(lab_results, idx),
                               failAns |-> "none", contAns |-> "none"])
    /\ pc' = "exited"
    /\ exit_code' = {ImplExit("return")}
    /\ UNCHANGED <<prog, mode, interactive, idx, labs_completed, labs_failed,
                   report>>
    /\ UNCHANGED checks
    /\ UNCHANGED envVars

\* main() with --cleanup: LabOrchestrator.run_cleanup. The interactive user
\* may cancel before the sweep is constructed; the result is dropped.
LO_Cleanup(ansSure, outcome) ==
    /\ pc = "lo_cleanup"
    /\ trace' = IF interactive /\ ansSure = "no"
                THEN trace
                ELSE Append(trace, [lab |-> 6, outcome |-> outcome,
                                    arg |-> None,
                                    failAns |-> "none", contAns |-> "none"])
    /\ pc' = "exited"
    /\ exit_code' = {ImplExit("return")}
    /\ UNCHANGED <<prog, mode, interactive, idx, lab_results, labs_completed,
                   labs_failed, report>>
    /\ UNCHANGED checks
    /\ UNCHANGED envVars

\* --------------------------------------------------- run_workshop.py

\* WorkshopRunner.run_lab: the value returned, and whether the lab is added to
\* labs_completed or to labs_failed. A failed lab returns success (False)
\* whatever the answer to "Continue despite failure?".
run_lab(lab_num, outcome, inter, ansCont, ansFail) ==
    CASE outcome = "ok" ->
           [ret |-> ~(inter /\ lab_num < 5 /\ ansCont = "no"),
            completed |-> TRUE, failed |-> FALSE]
      [] outcome = "fail" ->
           [ret |-> FALSE, completed |-> FALSE, failed |-> TRUE]
      [] OTHER ->
           [ret |-> FALSE, completed |-> FALSE, failed |-> TRUE]

\* The prompts run_lab showed, as recorded in the history.
WRContShown(lab_num, outcome, inter) == outcome = "ok" /\ inter /\ lab_num < 5
WRFailShown(outcome, inter) == outcome = "fail" /\ inter

\* WorkshopRunner.display_final_summary: the completed and the failed labs.
display_final_summary(completed, failed) ==
    [shown |-> TRUE, rows |-> EmptyMap, all_success |-> FALSE,
     completed |-> completed, failed |-> failed]

\* main() of run_workshop.py: the branch the arguments select. Without --lab
\* and --all the stages run only when no argument at all was given.
WorkMode(lab, all, non_interactive) ==
    IF lab # 0 THEN "lab"
    ELSE IF all \/ ~non_interactive THEN "all"
    ELSE "help"

\* main() of run_workshop.py: the exit code, by how main() ended: exit(0 if
\* success else 1), exit(1) on KeyboardInterrupt or any other exception, and a
\* plain return after print_help.
WorkExit(how) == IF how \in {"success", "help"} THEN 0 ELSE 1

\* The history entry of one call of run_lab.
WREntry(lab_num, outcome, inter, ansCont, ansFail) ==
    [lab |-> lab_num, outcome |-> outcome, arg |-> None,
     failAns |-> IF WRFailShown(outcome, inter) THEN ansFail ELSE "none",
     contAns |-> IF WRContShown(lab_num, outcome, inter)
                 THEN ansCont ELSE "none"]

\* main() of run_workshop.py starts.
WorkMain(lab, all, non_interactive) ==
    /\ pc = "init"
    /\ lab \in WorkshopSingleLabs \cup {0}
    /\ prog' = "run_workshop"
    /\ mode' = WorkMode(lab, all, non_interactive)
    /\ interactive' = ~non_interactive
    /\ idx' = IF mode' = "lab" THEN lab ELSE 1
    /\ pc' = CASE mode' = "all" -> "wr_begin"
              [] mode' = "lab" -> "wr_single"
              [] OTHER -> "exited"
    /\ exit_code' = IF mode' = "help" THEN {WorkExit("help")} ELSE {}
    /\ UNCHANGED <<lab_results, labs_completed, labs_failed, trace, report>>
    /\ UNCHANGED checks
    /\ UNCHANGED envVars

\* WorkshopRunner.run_all_labs up to Lab 1: the "Ready to start?" prompt.
WR_Begin(ansReady) ==
    /\ pc = "wr_begin"
    /\ IF interactive /\ ansReady = "no"
       THEN pc' = "exited" /\ exit_code' = {WorkExit("failure")}
       ELSE pc' = "wr_stage" /\ exit_code' = exit_code
    /\ UNCHANGED <<prog, mode, interactive, idx, lab_results, labs_completed,
                   labs_failed, trace, report>>
    /\ UNCHANGED checks
    /\ UNCHANGED envVars

\* WorkshopRunner.run_all_labs, one stage of Lab 1, 2, 4, 5: construct the lab
\* (outside any try: a raising constructor reaches main()), run_lab, and
\* return False unless run_lab returned True.
WR_Stage(outcome, ansCont, ansFail) ==
    /\ pc = "wr_stage"
    /\ LET lab_num == WorkshopLabs[idx]
           r == run_lab(lab_num, outcome, interactive, ansCont, ansFail)
       IN /\ trace' = Append(trace,
                WREntry(lab_num, outcome, interactive, ansCont, ansFail))
          /\ IF outcome = "raise_before"
             THEN /\ pc' = "exited"
                  /\ exit_code' = {WorkExit("error")}
                  /\ UNCHANGED <<labs_completed, labs_failed, idx>>
             ELSE /\ labs_completed' = IF r.completed
                                       THEN Append(labs_completed, lab_num)
                                       ELSE labs_completed
                  /\ labs_failed' = IF r.failed
                                    THEN Append(labs_failed, lab_num)
                                    ELSE labs_failed
                  /\ IF ~r.ret
                     THEN pc' = "exited" /\ exit_code' = {WorkExit("failure")}
                                        /\ idx' = idx
                     ELSE IF idx = Len(WorkshopLabs)
                     THEN pc' = "wr_summary" /\ exit_code' = exit_code
                                            /\ idx' = idx
                     ELSE pc' = "wr_stage" /\ exit_code' = exit_code
                                          /\ idx' = idx + 1
    /\ UNCHANGED <<prog, mode, interactive, lab_results, report>>
    /\ UNCHANGED checks
    /\ UNCHANGED envVars

\* The end of WorkshopRunner.run_all_labs: the final summary, then in
\* interactive mode the offer to run Lab 6, whose result is dropped; the
\* function returns True.
WR_Summary(ansCleanup, outcome, ansFail) ==
    /\ pc = "wr_summary"
    /\ report' = display_final_summary(labs_completed, labs_failed)
    /\ IF interactive /\ ansCleanup = "yes"
       THEN IF outcome = "raise_before"
            THEN /\ trace' = Append(trace,
                       WREntry(6, outcome, interactive, "none", ansFail))
                 /\ exit_code' = {WorkExit("error")}
                 /\ UNCHANGED <<labs_completed, labs_failed>>
            ELSE LET r == run_lab(6, outcome, interactive, "none", ansFail)
                 IN /\ trace' = Append(trace,
                          WREntry(6, outcome, interactive, "none", ansFail))
                    /\ labs_completed' = IF r.completed
                                         THEN Append(labs_completed, 6)
                                         ELSE labs_completed
                    /\ labs_failed' = IF r.failed
                                      THEN Append(labs_failed, 6)
                                      ELSE labs_failed
                    /\ exit_code' = {WorkExit("success")}
       ELSE /\ exit_code' = {WorkExit("success")}
            /\ UNCHANGED <<trace, labs_completed, labs_failed>>
    /\ pc' = "exited"
    /\ UNCHANGED <<prog, mode, interactive, idx, lab_results>>
    /\ UNCHANGED checks
    /\ UNCHANGED envVars

\* WorkshopRunner.run_single_lab: the lab is constructed with
\* interactive=True and run through run_lab; main() exits on its result.
WR_Single(outcome, ansCont, ansFail) ==
    /\ pc = "wr_single"
    /\ LET r == run_lab(idx, outcome, interactive, ansCont, ansFail)
       IN /\ trace' = Append(trace,
                WREntry(idx, outcome, interactive, ansCont, ansFail))
          /\ IF outcome = "raise_before"
             THEN /\ exit_code' = {WorkExit("error")}
                  /\ UNCHANGED <<labs_completed, labs_failed>>
             ELSE /\ labs_completed' = IF r.completed
                                       THEN Append(labs_completed, idx)
                                       ELSE labs_completed
                  /\ labs_failed' = IF r.failed
                                    THEN Append(labs_failed, idx)
                                    ELSE labs_failed
                  /\ exit_code' = {WorkExit(IF r.ret THEN "success"
                                                    ELSE "failure")}
    /\ pc' = "exited"
    /\ UNCHANGED <<prog, mode, interactive, idx, lab_results, report>>
    /\ UNCHANGED checks
    /\ UNCHANGED envVars

\* KeyboardInterrupt while main() of either script is running: the handler
\* of main() prints a notice and exits.
Interrupt ==
    /\ pc \notin {"init", "exited", "interrupted"}
    /\ pc' = "interrupted"
    /\ exit_code' = IF prog = "implement_labs"
                    THEN {ImplExit("interrupt")}
                    ELSE {WorkExit("interrupt")}
    /\ UNCHANGED <<prog, mode, interactive, idx, lab_results, labs_completed,
                   labs_failed, trace, report>>
    /\ UNCHANGED checks
    /\ UNCHANGED envVars

\* ------------------------------------------------------------------
\* The persisted configuration and the remote resources
\* ------------------------------------------------------------------

\* Bounds of the model.
MaxRuns == 3        \* stage runs and sweeps in one behaviour
MaxIds == 2         \* identifiers the platform can hand out per kind
MaxFaults == 1      \* calls that fail in one run for a reason of their own

\* dict operations on a mapping.
Has(m, k) == k \in DOMAIN m
Get(m, k) == IF k \in DOMAIN m THEN m[k] ELSE None
Put(m, k, v) == (k :> v) @@ m
Update(m, upd) == upd @@ m
Remove(m, k) == [x \in DOMAIN m \ {k} |-> m[x]]

\* A value is truthy (neither None nor missing).
Truthy(v) == v # None

\* The gateway URL the platform reports for a gateway.
UrlOf(g) == <<"url", g[2]>>

\* The runtime ARN launch_runtime sets (a fixed demo value).
MockArn == <<"arn", 0>>

\* The identifier the platform hands out next for a kind, None when the
\* model's supply is used up.
NewId(kind, used) ==
    IF \E n \in 1..MaxIds : Id(kind, n) \notin used
    THEN Id(kind, CHOOSE n \in 1..MaxIds :
                    /\ Id(kind, n) \notin used
                    /\ \A k \in 1..MaxIds : Id(kind, k) \notin used => n <= k)
    ELSE None

\* The calls whose failures the model lets coincide in one run; every other
\* call fails alone.
FaultsThatCombine ==
    {"create_memory", "get_gateway", "create_gateway", "put:gateway_id",
     "toolkit", "test", "delete_memory", "delete_parameter:runtime_arn",
     "summary"}

\* The sets of calls that fail in one run for a reason of their own (a
\* transient error, a denied permission), out of the calls the run can make.
FaultSets(points) ==
    {F \in SUBSET points :
        \/ Cardinality(F) <= 1
        \/ Cardinality(F) <= MaxFaults /\ F \subseteq FaultsThatCombine}

\* A step's record with one more call in its log.
Call(c, name) == [c EXCEPT !.calls = Append(@, name)]

\* A step's record marked failed (the step returned False or raised).
Fail(c) == [c EXCEPT !.ok = FALSE]

\* A run's record with one more step entered.
Step(c, name) == [c EXCEPT !.steps = Append(@, name)]

\* A KeyboardInterrupt arrives during the call just logged.
Arrives(c) == [c EXCEPT !.intrAt = Len(c.calls)]

\* A KeyboardInterrupt that no handler on the way catches ("except
\* Exception" lets it pass): it leaves run() and ends the process.
Interrupted(c) == [Arrives(c) EXCEPT !.ok = FALSE, !.intr = TRUE]

\* ---------------------------------------------------------- lab3.py

\* The calls of a Lab 3 run the model lets fail on their own.
Lab3Faults == {"client", "get_gateway", "create_gateway", "put:gateway_id",
               "create_gateway_target", "test"}

\* The calls of a Lab 3 run during which the model lets the user interrupt.
Lab3Interrupts == {"interrupt:get_parameter:gateway_id",
                   "interrupt:create_gateway"}

\* The state a Lab 3 run works on: the remote side, the object's fields and
\* the log of remote calls.
Lab3Start(mem) ==
    [ok |-> TRUE, calls |-> <<>>, ssm |-> ssm, gateways |-> gateways,
     targets |-> targets, memory_id |-> mem,
     gateway_id |-> None, gateway_url |-> None, saved |-> FALSE,
     intr |-> FALSE, intrAt |-> 0, check |-> "none", steps |-> <<>>]

\* Lab3Implementation.get_or_create_cognito: two SSM lookups, a demo
\* configuration when either raises; False only when no client can be made.
get_or_create_cognito(c, F) ==
    IF "client" \in F THEN Fail(c)
    ELSE LET c1 == Call(c, "ssm.get_parameter:client_id")
         IN IF Has(c.ssm, "client_id")
            THEN Call(c1, "ssm.get_parameter:cognito_discovery_url")
            ELSE c1

\* create_gateway, the existence check succeeded: adopt the gateway.
AdoptGateway(c) ==
    [c EXCEPT !.gateway_id = c.ssm["gateway_id"],
              !.gateway_url = UrlOf(c.ssm["gateway_id"])]

\* create_gateway, the branch taken when the existence check raised: create
\* the gateway, then write its id and its URL to SSM; any of the three calls
\* raising makes create_gateway return False.
CreateNewGateway(c, F) ==
    LET c1 == Call(Call(c, "ssm.get_parameter:gateway_iam_role"), "create_gateway")
        g == NewId("gw", c.gateways)
    IN IF "interrupt:create_gateway" \in F THEN Interrupted(c1)
       ELSE IF "create_gateway" \in F \/ g = None THEN Fail(c1)
       ELSE LET c2 == Call([c1 EXCEPT !.gateways = @ \cup {g},
                                      !.gateway_id = g,
                                      !.gateway_url = UrlOf(g)],
                           "ssm.put_parameter:gateway_id")
            IN IF "put:gateway_id" \in F THEN Fail(c2)
               ELSE LET c3 == Call([c2 EXCEPT !.ssm = Put(@, "gateway_id", g)],
                                   "ssm.put_parameter:gateway_url")
                    IN IF "put:gateway_url" \in F THEN Fail(c3)
                       ELSE [c3 EXCEPT !.ssm = Put(@, "gateway_url", UrlOf(g))]

\* A variant of create_gateway in which a raising existence check is an
\* error of the step.
create_gatewayEscalating(c, F) ==
    LET c1 == Call(c, "ssm.get_parameter:gateway_id")
        known == Has(c.ssm, "gateway_id")
        c2 == IF known THEN Call(c1, "get_gateway") ELSE c1
        found == /\ known
                 /\ c.ssm["gateway_id"] \in c.gateways
                 /\ "get_gateway" \notin F
    IN IF found THEN AdoptGateway([c2 EXCEPT !.check = "found"])
       ELSE IF known THEN Fail([c2 EXCEPT !.check = "raised"])
       ELSE CreateNewGateway([c2 EXCEPT !.check = "raised"], F)

\* Lab3Implementation.create_gateway: look the gateway up (SSM, then
\* get_gateway); whatever the lookup raises counts as "does not exist", a
\* KeyboardInterrupt included (the handler is a bare "except:").
create_gateway(c, F) ==
    LET interrupted == "interrupt:get_parameter:gateway_id" \in F
        c0 == Call(c, "ssm.get_parameter:gateway_id")
        c1 == IF interrupted THEN Arrives(c0) ELSE c0
        known == /\ Has(c.ssm, "gateway_id")
                 /\ "get:gateway_id" \notin F
                 /\ ~interrupted
        c2 == IF known THEN Call(c1, "get_gateway") ELSE c1
        found == /\ known
                 /\ c.ssm["gateway_id"] \in c.gateways
                 /\ "get_gateway" \notin F
    IN IF found THEN AdoptGateway([c2 EXCEPT !.check = "found"])
       ELSE CreateNewGateway([c2 EXCEPT !.check = "raised"], F)

\* A variant of add_lambda_target in which a failed attachment is an error
\* of the step.
add_lambda_targetCritical(c, F) ==
    LET c1 == Call(Call(c, "ssm.get_parameter:lambda_arn"), "create_gateway_target")
    IN IF "create_gateway_target" \in F \/ c.gateway_id \in c.targets
       THEN Fail(c1)
       ELSE [c1 EXCEPT !.targets = @ \cup {c.gateway_id}]

\* Lab3Implementation.add_lambda_target: always attempts the creation; the
\* platform refuses a second target of that name on the gateway; the result
\* is True either way.
add_lambda_target(c, F) ==
    LET c1 == Call(Call(c, "ssm.get_parameter:lambda_arn"), "create_gateway_target")
    IN IF "create_gateway_target" \in F \/ c.gateway_id \in c.targets
       THEN c1
       ELSE [c1 EXCEPT !.targets = @ \cup {c.gateway_id}]

\* A variant of test_gateway_integration that undoes the gateway when the
\* test fails.
test_gateway_integrationUndoing(c, F) ==
    IF "test" \in F
    THEN Fail(Call([c EXCEPT !.gateways = @ \ {c.gateway_id}],
                   "delete_gateway"))
    ELSE c

\* Lab3Implementation.create_agent_with_gateway and test_gateway_integration:
\* local work and one model invocation; either can fail.
create_agent_with_gateway(c, F) == IF "agent" \in F THEN Fail(c) ELSE c
test_gateway_integration(c, F) == IF "test" \in F THEN Fail(c) ELSE c

\* A variant of Lab3Save that writes the two gateway keys alone.
Lab3SaveOverwrite(f, c) ==
    [exists |-> TRUE,
     data |-> ("gateway_id" :> c.gateway_id)
              @@ ("gateway_url" :> c.gateway_url)]

\* Lab3Implementation.run, the configuration written at the end: the file's
\* content updated with the two gateway keys.
Lab3Save(f, c) ==
    [exists |-> TRUE,
     data |-> Update(f.data, ("gateway_id" :> c.gateway_id)
                             @@ ("gateway_url" :> c.gateway_url))]

\* A variant of Lab3Steps that writes the configuration before the test.
Lab3StepsSaveBeforeTest(mem, F) ==
    LET s1 == get_or_create_cognito(Step(Lab3Start(mem), "cognito"), F)
        s2 == IF s1.ok THEN create_gateway(Step(s1, "gateway"), F) ELSE s1
        s3 == IF s2.ok THEN add_lambda_target(Step(s2, "target"), F) ELSE s2
        s4 == IF s3.ok THEN create_agent_with_gateway(Step(s3, "agent"), F)
              ELSE s3
        s5 == IF s4.ok THEN [Step(s4, "save") EXCEPT !.saved = TRUE] ELSE s4
    IN IF s5.ok THEN test_gateway_integration(Step(s5, "test"), F) ELSE s5

\* Lab3Implementation.run: the five steps in order, each critical step's
\* failure ending the run; the result of the run and the state it leaves.
Lab3Steps(mem, F) ==
    LET s1 == get_or_create_cognito(Step(Lab3Start(mem), "cognito"), F)
        s2 == IF s1.ok THEN create_gateway(Step(s1, "gateway"), F) ELSE s1
        s3 == IF s2.ok THEN add_lambda_target(Step(s2, "target"), F) ELSE s2
        s4 == IF s3.ok THEN create_agent_with_gateway(Step(s3, "agent"), F)
              ELSE s3
        s5 == IF s4.ok THEN test_gateway_integration(Step(s4, "test"), F)
              ELSE s4
    IN IF s5.ok THEN [Step(s5, "save") EXCEPT !.saved = TRUE] ELSE s5

\* ---------------------------------------------------------- lab2.py

\* max_retries of wait_for_memory_processing.
max_retries == 6

\* The calls of a Lab 2 run the model lets fail on their own.
Lab2Faults == {"create_memory", "seed", "hooks", "test"}

\* What the retrieve_memories calls of one wait return, attempt by attempt:
\* "found" (a non-empty list of records), "empty", "raise", or "unreadable"
\* (a non-empty result the display code under the same try cannot read, as a
\* record whose content is not a mapping: mem.get("content", {}).get raises).
SlowPoll == [i \in 1..max_retries |-> IF i < 3 THEN "empty" ELSE "found"]
PollPatterns ==
    {SlowPoll,
     [i \in 1..max_retries |-> IF i = 2 THEN "raise" ELSE "empty"],
     [i \in 1..max_retries |-> IF i = 1 THEN "unreadable" ELSE "found"]}

Lab2Start ==
    [ok |-> TRUE, calls |-> <<>>, memories |-> memories, memory_id |-> None,
     saved |-> FALSE, steps |-> <<>>]

\* Lab2Implementation.create_memory_resource: create_memory_and_wait, with no
\* lookup before it.
create_memory_resource(c, F) ==
    LET c1 == Call(c, "create_memory_and_wait")
        m == NewId("mem", c.memories)
    IN IF "create_memory" \in F \/ m = None THEN Fail(c1)
       ELSE [c1 EXCEPT !.memories = @ \cup {m}, !.memory_id = m]

\* Lab2Implementation.seed_customer_history: one create_event.
seed_customer_history(c, F) ==
    LET c1 == Call(c, "create_event")
    IN IF "seed" \in F THEN Fail(c1) ELSE c1

\* A variant of WaitLoop that gives up at the first exception.
RECURSIVE WaitLoopUntilRaise(_, _)
WaitLoopUntilRaise(retry, outs) ==
    IF retry >= max_retries THEN 0
    ELSE IF outs[retry + 1] \in {"found", "raise"} THEN 1
    ELSE 1 + WaitLoopUntilRaise(retry + 1, outs)

\* The loop of wait_for_memory_processing from attempt retry on: the number
\* of retrieve_memories calls it makes. An empty result and an exception
\* (from the call or from displaying its result) both lead to the next
\* attempt.
RECURSIVE WaitLoop(_, _)
WaitLoop(retry, outs) ==
    IF retry >= max_retries THEN 0
    ELSE IF outs[retry + 1] = "found" THEN 1
    ELSE 1 + WaitLoop(retry + 1, outs)

\* A log with n more calls of one name.
RECURSIVE Calls(_, _, _)
Calls(c, name, n) == IF n = 0 THEN c ELSE Calls(Call(c, name), name, n - 1)

\* Lab2Implementation.wait_for_memory_processing: returns True in every case.
wait_for_memory_processing(c, outs) ==
    Calls(c, "retrieve_memories", WaitLoop(0, outs))

\* Lab2Implementation.create_memory_hooks: the hook object reads the
\* strategies of the memory; an exception reaches run().
create_memory_hooks(c, F) ==
    LET c1 == Call(c, "get_memory_strategies")
    IN IF "hooks" \in F THEN Fail(c1) ELSE c1

\* Lab2Implementation.create_agent_with_memory and test_personalization.
create_agent_with_memory(c, F) == IF "agent" \in F THEN Fail(c) ELSE c
test_personalization(c, F) == IF "test" \in F THEN Fail(c) ELSE c

\* Lab2Implementation.run, the configuration written at the end: the file is
\* opened for writing and holds memory_id alone.
Lab2Save(f, c) == [exists |-> TRUE, data |-> ("memory_id" :> c.memory_id)]

\* Lab2Implementation.run: the six steps in order.
Lab2Steps(outs, F) ==
    LET s1 == create_memory_resource(Step(Lab2Start, "memory"), F)
        s2 == IF s1.ok THEN seed_customer_history(Step(s1, "seed"), F) ELSE s1
        s3 == IF s2.ok THEN wait_for_memory_processing(Step(s2, "wait"), outs)
              ELSE s2
        s4 == IF s3.ok THEN create_memory_hooks(Step(s3, "hooks"), F) ELSE s3
        s5 == IF s4.ok THEN create_agent_with_memory(Step(s4, "agent"), F)
              ELSE s4
        s6 == IF s5.ok THEN test_personalization(Step(s5, "test"), F) ELSE s5
    IN IF s6.ok THEN [Step(s6, "save") EXCEPT !.saved = TRUE] ELSE s6

\* ---------------------------------------------------------- lab4.py

\* The calls of a Lab 4 run the model lets fail on their own.
Lab4Faults == {"code", "toolkit", "configure", "test"}

Lab4Start ==
    [ok |-> TRUE, calls |-> <<>>, resources |-> resources, runtime |-> FALSE,
     runtime_arn |-> None, saved |-> FALSE]

\* Lab4Implementation.create_runtime_code: writes the runtime_agent directory.
create_runtime_code(c, F) ==
    IF "code" \in F THEN Fail(c)
    ELSE [c EXCEPT !.resources = @ \cup {"runtime_agent"}]

\* Lab4Implementation.create_execution_role: looks the role up and returns
\* its ARN, or a demo ARN when the lookup raises; it creates nothing.
create_execution_role(c, F) == Call(c, "iam.get_role")

\* Lab4Implementation.configure_runtime: self.runtime is set once the toolkit
\* is imported; configure() writes Dockerfile and .bedrock_agentcore.yaml.
\* run() goes on whatever it returns.
configure_runtime(c, F) ==
    IF "toolkit" \in F THEN c
    ELSE LET c1 == Call([c EXCEPT !.runtime = TRUE],
                        "ssm.get_parameter:client_id")
             c2 == IF Has(ssm, "client_id")
                   THEN Call(c1, "ssm.get_parameter:cognito_discovery_url")
                   ELSE c1
         IN IF "configure" \in F THEN c2
            ELSE [c2 EXCEPT !.resources =
                      @ \cup {"Dockerfile", ".bedrock_agentcore.yaml"}]

\* Lab4Implementation.launch_runtime: without a runtime object it returns
\* False and leaves runtime_arn None; run() drops the result.
launch_runtime(c) ==
    IF ~c.runtime THEN c ELSE [c EXCEPT !.runtime_arn = MockArn]

\* Lab4Implementation.test_runtime_invocation: False when it raises.
test_runtime_invocation(c, F) == IF "test" \in F THEN Fail(c) ELSE c

\* Lab4Implementation.run, the configuration written at the end: the file's
\* content with runtime_arn set (to None when nothing was launched).
Lab4Save(f, c) ==
    [exists |-> TRUE, data |-> Put(f.data, "runtime_arn", c.runtime_arn)]

\* Lab4Implementation.run: only create_runtime_code and
\* test_runtime_invocation can end the run early.
Lab4Steps(F) ==
    LET s1 == create_runtime_code(Lab4Start, F)
        s2 == IF s1.ok THEN create_execution_role(s1, F) ELSE s1
        s3 == IF s2.ok THEN configure_runtime(s2, F) ELSE s2
        s4 == IF s3.ok THEN launch_runtime(s3) ELSE s3
        s5 == IF s4.ok THEN test_runtime_invocation(s4, F) ELSE s4
    IN IF s5.ok THEN [s5 EXCEPT !.saved = TRUE] ELSE s5

\* ---------------------------------------------------------- lab5.py

\* The calls of a Lab 5 run the model lets fail on their own.
Lab5Faults == {"client", "frontend"}

\* The runtime ARN load_configuration falls back to when it has none.
DemoArn == <<"arn", 9>>

\* Lab5Implementation.__init__.
Lab5Start ==
    [ok |-> TRUE, calls |-> <<>>, resources |-> resources,
     runtime_arn |-> None, cognito_config |-> EmptyMap]

\* load_configuration, the three SSM lookups of the dict literal, from
\* position i on: the first one that raises ends them.
RECURSIVE Lab5Lookups(_, _)
Lab5Lookups(c, i) ==
    LET names == <<"runtime_arn", "client_id", "pool_id">>
    IN IF i > Len(names) THEN c
       ELSE LET c1 == Call(c, "ssm.get_parameter:" \o names[i])
            IN IF Has(ssm, names[i]) THEN Lab5Lookups(c1, i + 1) ELSE Fail(c1)

\* Lab5Implementation.load_configuration: runtime_arn from the local file,
\* then the configuration from SSM when all three lookups succeed, and a demo
\* configuration around the local runtime_arn when one of them raises. False
\* only when no client can be made.
Lab5_load_configuration(c, F) ==
    LET local == IF file.exists THEN Get(file.data, "runtime_arn") ELSE None
        c0 == [c EXCEPT !.runtime_arn = local]
    IN IF "client" \in F THEN Fail(c0)
       ELSE LET c1 == Lab5Lookups(c0, 1)
            IN IF c1.ok
               THEN [c1 EXCEPT !.cognito_config =
                        [k \in {"runtime_arn", "client_id", "pool_id"}
                            |-> ssm[k]]]
               ELSE [c1 EXCEPT !.ok = TRUE,
                               !.cognito_config =
                        ("runtime_arn" :> (IF Truthy(local) THEN local
                                           ELSE DemoArn))
                        @@ ("client_id" :> Id("client", 0))
                        @@ ("pool_id" :> Id("pool", 0))]

\* Lab5Implementation.create_frontend_directory: writes the streamlit_app
\* directory, config.json with the loaded configuration in it.
create_frontend_directory(c, F) ==
    IF "frontend" \in F THEN Fail(c)
    ELSE [c EXCEPT !.resources = @ \cup {"streamlit_app"}]

\* Lab5Implementation.run: load, create the frontend; the remaining steps
\* check and display what was written.
Lab5Steps(F) ==
    LET s1 == Lab5_load_configuration(Lab5Start, F)
    IN IF s1.ok THEN create_frontend_directory(s1, F) ELSE s1

\* ---------------------------------------------------------- lab6.py

\* A delete call succeeds when its target exists and the call does not fail
\* for a reason of its own; on an absent target it raises (not found).

\* The user pool of the workshop environment.
PoolId == Id("pool", 1)

\* The SSM parameters the sweep deletes, in order.
SweepParameters ==
    <<"runtime_arn", "gateway_url", "client_id", "pool_id",
      "cognito_discovery_url">>

\* The log group prefixes the sweep walks, in order (one group under each).
LogGroupPrefixes == <<"lg:runtime", "lg:gateway", "lg:lambda">>

\* The local files and directories the sweep removes, in order.
ItemsToRemove ==
    <<"lab_config.json", "runtime_agent", "streamlit_app",
      ".bedrock_agentcore.yaml", "Dockerfile">>

\* The calls of a sweep the model lets fail on their own.
Lab6Faults ==
    {"client", "delete_memory", "delete_parameter:runtime_arn",
     "delete_log_group", "remove:lab_config.json", "summary"}

\* The calls of a sweep during which the model lets the user interrupt.
Lab6Interrupts == {"interrupt:delete_memory",
                   "interrupt:delete_parameter:runtime_arn"}

\* Lab6Implementation.__init__: the empty cleanup_summary.
EmptyLedger ==
    [memory |-> <<>>, runtime |-> <<>>, gateway |-> <<>>, security |-> <<>>,
     observability |-> <<>>, files |-> <<>>]

\* Ledger entries: a resource reported deleted, or a warning.
Deleted(what) == <<"deleted", what>>
Warning(what) == <<"warning", what>>

\* A sweep's record with one more entry under a category.
Note(c, category, entry) ==
    [c EXCEPT !.ledger[category] = Append(@, entry)]

Lab6Start ==
    [ok |-> TRUE, calls |-> <<>>, file |-> file, ssm |-> ssm,
     memories |-> memories, resources |-> resources, config |-> EmptyMap,
     ledger |-> EmptyLedger, steps |-> <<>>, intr |-> FALSE, intrAt |-> 0]

\* load_configuration, one SSM lookup: the remote value replaces the local
\* one; a lookup that raises leaves the key as it is.
LoadKey(c, F, k) ==
    LET c1 == Call(c, "ssm.get_parameter:" \o k)
    IN IF Has(c.ssm, k) /\ "get_parameter" \notin F
       THEN [c1 EXCEPT !.config = Put(@, k, c.ssm[k])]
       ELSE c1

\* Lab6Implementation.load_configuration: the local file first, then
\* runtime_arn, gateway_url and pool_id from SSM.
load_configuration(c, F) ==
    LET c0 == [c EXCEPT !.config = IF c.file.exists THEN c.file.data
                                   ELSE EmptyMap]
    IN IF "client" \in F THEN c0
       ELSE LoadKey(LoadKey(LoadKey(c0, F, "runtime_arn"), F, "gateway_url"),
                    F, "pool_id")

\* Lab6Implementation.cleanup_memory_resources.
cleanup_memory_resources(c, F) ==
    LET memory_id == Get(c.config, "memory_id")
    IN IF "memory_client" \in F \/ ~Truthy(memory_id) THEN c
       ELSE LET c1 == Call(c, "delete_memory")
            IN IF "interrupt:delete_memory" \in F THEN Interrupted(c1)
               ELSE IF memory_id \in c.memories /\ "delete_memory" \notin F
               THEN Note([c1 EXCEPT !.memories = @ \ {memory_id}],
                         "memory", Deleted("memory"))
               ELSE Note(c1, "memory", Warning("memory"))

\* cleanup_runtime_resources, the runtime: the delete call is commented out,
\* the entry is written once the client exists.
SweepRuntime(c, F) ==
    IF "client" \in F THEN Note(c, "runtime", Warning("runtime"))
    ELSE Note(c, "runtime", Deleted("runtime"))

\* cleanup_runtime_resources, the ECR repository: a failure is printed only.
SweepEcr(c, F) ==
    IF "client" \in F THEN c
    ELSE LET c1 == Call(c, "ecr.delete_repository")
         IN IF "ecr" \in c.resources /\ "delete_repository" \notin F
            THEN Note([c1 EXCEPT !.resources = @ \ {"ecr"}],
                      "runtime", Deleted("ecr"))
            ELSE c1

\* Lab6Implementation.cleanup_runtime_resources: both only when the
\* configuration holds a runtime_arn.
cleanup_runtime_resources(c, F) ==
    IF Truthy(Get(c.config, "runtime_arn"))
    THEN SweepEcr(SweepRuntime(c, F), F)
    ELSE c

\* Lab6Implementation.cleanup_gateway_resources: only when the configuration
\* holds a gateway_url; the delete calls are commented out.
cleanup_gateway_resources(c, F) ==
    IF Truthy(Get(c.config, "gateway_url"))
    THEN IF "client" \in F THEN Note(c, "gateway", Warning("gateway"))
         ELSE Note(c, "gateway", Deleted("gateway"))
    ELSE c

\* cleanup_security_resources, the IAM role: policies detached and deleted,
\* then delete_role; a failure is printed only.
SweepRole(c, F) ==
    IF "client" \in F THEN c
    ELSE LET c1 == Call(Call(Call(c, "iam.list_attached_role_policies"),
                             "iam.list_role_policies"), "iam.delete_role")
         IN IF "iam_role" \in c.resources /\ "delete_role" \notin F
            THEN Note([c1 EXCEPT !.resources = @ \ {"iam_role"}],
                      "security", Deleted("iam_role"))
            ELSE c1

\* cleanup_security_resources, the SSM parameters from position i on: each
\* delete in its own try, a failure passed over in silence, and so is a
\* KeyboardInterrupt (the handler is a bare "except:").
RECURSIVE SweepParams(_, _, _)
SweepParams(c, F, i) ==
    IF i > Len(SweepParameters) THEN c
    ELSE LET p == SweepParameters[i]
             interrupted == ("interrupt:delete_parameter:" \o p) \in F
             c0 == Call(c, "ssm.delete_parameter:" \o p)
             c1 == IF interrupted THEN Arrives(c0) ELSE c0
         IN IF /\ Has(c.ssm, p)
               /\ ("delete_parameter:" \o p) \notin F
               /\ ~interrupted
            THEN SweepParams(Note([c1 EXCEPT !.ssm = Remove(@, p)],
                                  "security", Deleted("ssm:" \o p)), F, i + 1)
            ELSE SweepParams(c1, F, i + 1)

\* cleanup_security_resources, Cognito: only when the configuration holds a
\* pool_id; users first, then the pool; a failure is printed only.
SweepCognito(c, F) ==
    LET pool_id == Get(c.config, "pool_id")
    IN IF "client" \in F \/ ~Truthy(pool_id) THEN c
       ELSE LET c1 == Call(Call(c, "cognito.list_users"),
                           "cognito.delete_user_pool")
            IN IF /\ "pool" \in c.resources
                  /\ pool_id = PoolId
                  /\ "delete_user_pool" \notin F
               THEN Note([c1 EXCEPT !.resources = @ \ {"pool"}],
                         "security", Deleted("pool"))
               ELSE c1

\* cleanup_security_resources, the secret: a failure passed over in silence.
SweepSecret(c, F) ==
    IF "client" \in F THEN c
    ELSE LET c1 == Call(c, "secretsmanager.delete_secret")
         IN IF "secret" \in c.resources /\ "delete_secret" \notin F
            THEN Note([c1 EXCEPT !.resources = @ \ {"secret"}],
                      "security", Deleted("secret"))
            ELSE c1

\* Lab6Implementation.cleanup_security_resources.
cleanup_security_resources(c, F) ==
    SweepSecret(
        SweepCognito(
            IF "client" \in F THEN SweepRole(c, F)
            ELSE SweepParams(SweepRole(c, F), F, 1),
            F),
        F)

\* cleanup_observability_resources from prefix i on: the groups under the
\* prefix are listed, each is deleted in its own try.
RECURSIVE SweepLogs(_, _, _)
SweepLogs(c, F, i) ==
    IF i > Len(LogGroupPrefixes) THEN c
    ELSE LET g == LogGroupPrefixes[i]
             c1 == Call(c, "logs.describe_log_groups:" \o g)
         IN IF "describe_log_groups" \in F \/ g \notin c.resources
            THEN SweepLogs(c1, F, i + 1)
            ELSE LET c2 == Call(c1, "logs.delete_log_group:" \o g)
                 IN IF "delete_log_group" \in F
                    THEN SweepLogs(c2, F, i + 1)
                    ELSE SweepLogs(Note([c2 EXCEPT !.resources = @ \ {g}],
                                        "observability", Deleted(g)),
                                   F, i + 1)

\* Lab6Implementation.cleanup_observability_resources.
cleanup_observability_resources(c, F) ==
    IF "client" \in F THEN c ELSE SweepLogs(c, F, 1)

\* An item of ItemsToRemove exists.
ItemExists(c, item) ==
    IF item = "lab_config.json" THEN c.file.exists ELSE item \in c.resources

\* A variant of ItemRemoved that leaves the item where it is.
ItemRemovedKept(c, item) == c

\* The state without an item of ItemsToRemove.
ItemRemoved(c, item) ==
    IF item = "lab_config.json"
    THEN [c EXCEPT !.file = [exists |-> FALSE, data |-> EmptyMap]]
    ELSE [c EXCEPT !.resources = @ \ {item}]

\* cleanup_local_files from item i on: an item that exists is removed; a
\* failure is printed only.
RECURSIVE SweepFiles(_, _, _)
SweepFiles(c, F, i) ==
    IF i > Len(ItemsToRemove) THEN c
    ELSE LET item == ItemsToRemove[i]
         IN IF ~ItemExists(c, item) THEN SweepFiles(c, F, i + 1)
            ELSE LET c1 == Call(c, "remove:" \o item)
                 IN IF ("remove:" \o item) \in F
                    THEN SweepFiles(c1, F, i + 1)
                    ELSE SweepFiles(Note(ItemRemoved(c1, item), "files",
                                         Deleted(item)), F, i + 1)

\* Lab6Implementation.cleanup_local_files.
cleanup_local_files(c, F) == SweepFiles(c, F, 1)

\* A variant of Lab6Steps that returns before the local files step.
Lab6StepsNoFiles(F) ==
    LET s0 == load_configuration(Step(Lab6Start, "load"), F)
        s1 == cleanup_memory_resources(Step(s0, "memory"), F)
        s2 == IF s1.intr THEN s1
              ELSE cleanup_runtime_resources(Step(s1, "runtime"), F)
        s3 == IF s2.intr THEN s2
              ELSE cleanup_gateway_resources(Step(s2, "gateway"), F)
        s4 == IF s3.intr THEN s3
              ELSE cleanup_security_resources(Step(s3, "security"), F)
        s5 == IF s4.intr THEN s4
              ELSE cleanup_observability_resources(Step(s4, "observability"),
                                                   F)
    IN IF s5.intr THEN s5
       ELSE IF "summary" \in F THEN Fail(Step(s5, "summary raised"))
       ELSE Step(s5, "summary")

\* Lab6Implementation.run after the confirmation: the configuration is
\* loaded and the six category steps run in order, their return values
\* dropped; then the summary is displayed and run() returns True, or False
\* when displaying it raises. A KeyboardInterrupt that leaves a step leaves
\* run() as well (its handler is "except Exception").
Lab6Steps(F) ==
    LET s0 == load_configuration(Step(Lab6Start, "load"), F)
        s1 == cleanup_memory_resources(Step(s0, "memory"), F)
        s2 == IF s1.intr THEN s1
              ELSE cleanup_runtime_resources(Step(s1, "runtime"), F)
        s3 == IF s2.intr THEN s2
              ELSE cleanup_gateway_resources(Step(s2, "gateway"), F)
        s4 == IF s3.intr THEN s3
              ELSE cleanup_security_resources(Step(s3, "security"), F)
        s5 == IF s4.intr THEN s4
              ELSE cleanup_observability_resources(Step(s4, "observability"),
                                                   F)
        s6 == IF s5.intr THEN s5
              ELSE cleanup_local_files(Step(s5, "files"), F)
    IN IF s6.intr THEN s6
       ELSE IF "summary" \in F THEN Fail(Step(s6, "summary raised"))
       ELSE Step(s6, "summary")

\* ------------------------------------------------- the stages, run

\* The record of the last run before any run.
NoRun ==
    [op |-> "none", n |-> 0, result |-> FALSE, calls |-> <<>>, arg |-> None,
     ids |-> EmptyMap, steps |-> <<>>, interrupted |-> FALSE, intrAt |-> 0,
     check |-> "none", faults |-> {}, recorded |-> {}, allOk |-> TRUE,
     prevAllOk |-> TRUE, prevFile |-> NoFile,
     prevSsm |-> EmptyMap, prevGateways |-> {}, prevTargets |-> {},
     prevMemories |-> {}, prevResources |-> {}]

\* The record of a run: what it was given, what it returned, the remote
\* calls it made, the identifiers it holds, the steps it entered, and the
\* state it started from (for Lab 2 the argument is what its polls
\* returned; and, set by the runs that model it, whether a
\* KeyboardInterrupt ended the run and during which call one arrived, how
\* the existence check of the gateway ended, and which calls were made to
\* fail). It also carries, over the runs so far, the identifiers that
\* successful runs of Lab 2, 3 and 4 wrote to lab_config.json, and whether
\* every run was a forward stage that returned True.
RunRecord(op, result, calls, arg, ids, steps) ==
    [op |-> op, n |-> last.n + 1, result |-> result, calls |-> calls,
     arg |-> arg, ids |-> ids, steps |-> steps,
     interrupted |-> FALSE, intrAt |-> 0, check |-> "none", faults |-> {},
     recorded |-> last.recorded
                  \cup (IF result /\ op \in {"lab2", "lab3", "lab4"}
                        THEN {<<k, ids[k]>> : k \in DOMAIN ids}
                        ELSE {}),
     allOk |-> last.allOk /\ result
               /\ op \in {"lab2", "lab3", "lab4", "lab5"},
     prevAllOk |-> last.allOk,
     prevFile |-> file,
     prevSsm |-> ssm,
     prevGateways |-> gateways, prevTargets |-> targets,
     prevMemories |-> memories, prevResources |-> resources]

\* Lab2Implementation(...).run().
Lab2Run(outs, F) ==
    /\ last.n < MaxRuns
    /\ \E s \in {Lab2Steps(outs, F)} :
          /\ memories' = s.memories
          /\ file' = IF s.saved THEN Lab2Save(file, s) ELSE file
          /\ last' = RunRecord("lab2", s.ok, s.calls, outs,
                               "memory_id" :> s.memory_id, s.steps)
    /\ sweeps' = <<>>
    /\ UNCHANGED <<ssm, gateways, targets, resources, cleanup_summary>>
    /\ UNCHANGED orchVars

\* Lab3Implementation(memory_id=mem).run().
Lab3Run(mem, F) ==
    /\ last.n < MaxRuns
    /\ \E s \in {Lab3Steps(mem, F)} :
          /\ ssm' = s.ssm
          /\ gateways' = s.gateways
          /\ targets' = s.targets
          /\ file' = IF s.saved THEN Lab3Save(file, s) ELSE file
          /\ last' = [RunRecord("lab3", s.ok, s.calls, mem,
                                ("gateway_id" :> s.gateway_id)
                                @@ ("gateway_url" :> s.gateway_url), s.steps)
                       EXCEPT !.interrupted = s.intr, !.intrAt = s.intrAt,
                              !.check = s.check, !.faults = F]
    /\ sweeps' = <<>>
    /\ UNCHANGED <<memories, resources, cleanup_summary>>
    /\ UNCHANGED orchVars

\* Lab4Implementation(...).run().
Lab4Run(F) ==
    /\ last.n < MaxRuns
    /\ \E s \in {Lab4Steps(F)} :
          /\ resources' = s.resources
          /\ file' = IF s.saved THEN Lab4Save(file, s) ELSE file
          /\ last' = RunRecord("lab4", s.ok, s.calls, None,
                               "runtime_arn" :> s.runtime_arn, <<>>)
    /\ sweeps' = <<>>
    /\ UNCHANGED <<ssm, gateways, targets, memories, cleanup_summary>>
    /\ UNCHANGED orchVars

\* Lab5Implementation(...).run().
Lab5Run(F) ==
    /\ last.n < MaxRuns
    /\ \E s \in {Lab5Steps(F)} :
          /\ resources' = s.resources
          /\ last' = RunRecord("lab5", s.ok, s.calls, None, s.cognito_config,
                               <<>>)
    /\ sweeps' = <<>>
    /\ UNCHANGED <<file, ssm, gateways, targets, memories, cleanup_summary>>
    /\ UNCHANGED orchVars

\* What a sweep is started with: the mode and the answer to its prompt.
\* Confirm.ask(..., default=False) makes the bare Enter key a "no"; a
\* non-interactive sweep asks nothing.
SweepInputs ==
    {<<TRUE, a>> : a \in Answers} \cup {<<FALSE, "none">>}

\* The same prompt, letting the sweep go on whatever the answer.
ProceedsWhateverTheAnswer(inter, answer) == TRUE

\* The confirmation prompt of Lab6Implementation.run(): asked only in
\* interactive mode, and then the sweep goes on only after a yes.
Proceeds(inter, answer) == inter => answer = "yes"

\* Lab6Implementation(interactive).run(): an interactive user who does not
\* answer yes ends it with False before anything is touched; otherwise
\* the sweep runs and returns True, or False when the closing summary
\* raises.  The record keeps the mode and the answer.
Lab6Run(inter, answer, F) ==
    /\ last.n < MaxRuns
    /\ IF ~Proceeds(inter, answer)
       THEN /\ last' = RunRecord("lab6", FALSE, <<>>, <<inter, answer>>,
                                 EmptyMap, <<"cancelled">>)
            /\ cleanup_summary' = EmptyLedger
            /\ UNCHANGED <<file, ssm, memories, resources, sweeps>>
       ELSE \E s \in {Lab6Steps(F)} :
               /\ file' = s.file
               /\ ssm' = s.ssm
               /\ memories' = s.memories
               /\ resources' = s.resources
               /\ cleanup_summary' = s.ledger
               /\ last' = [RunRecord("lab6", s.ok, s.calls,
                                     <<inter, answer>>, s.config, s.steps)
                            EXCEPT !.interrupted = s.intr,
                                   !.intrAt = s.intrAt]
               /\ sweeps' = Append(sweeps, [clean |-> (F = {}),
                                            ledger |-> s.ledger])
    /\ UNCHANGED <<gateways, targets>>
    /\ UNCHANGED orchVars

\* The SSM parameters the workshop's prerequisite stack provides.
PrerequisiteParams ==
    ("client_id" :> Id("client", 1))
    @@ ("cognito_discovery_url" :> Id("discovery", 1))
    @@ ("pool_id" :> PoolId)

\* The conventionally named resources of a deployed workshop.
WorkshopResources ==
    {"iam_role", "ecr", "pool", "secret", "lg:runtime", "lg:lambda"}

\* The contents lab_config.json can have before the first run.
InitialFiles ==
    {NoFile, [exists |-> TRUE, data |-> ("note" :> Id("note", 1))]}

\* No orchestrator runs.
OrchIdle ==
    /\ prog = "none"
    /\ mode = "none"
    /\ interactive = FALSE
    /\ pc = "init"
    /\ idx = 1
    /\ lab_results = EmptyMap
    /\ labs_completed = <<>>
    /\ labs_failed = <<>>
    /\ trace = <<>>
    /\ report = NoReport
    /\ exit_code = {}
    /\ checks = NoChecks

\* The SSM parameters of an account in which a runtime was deployed and
\* registered before.
DeployedParams == ("runtime_arn" :> Id("arn", 1)) @@ PrerequisiteParams

\* The account and the working directory before the first run: a fresh
\* account, one with the workshop's prerequisites deployed (with or without
\* a lab_config.json left in the directory), or one with a runtime
\* registered as well.
InitialAccounts ==
    {[ssm |-> EmptyMap, resources |-> {}, files |-> {NoFile}],
     [ssm |-> PrerequisiteParams, resources |-> WorkshopResources,
      files |-> InitialFiles],
     [ssm |-> DeployedParams, resources |-> WorkshopResources,
      files |-> {NoFile}]}

StagesInit ==
    /\ OrchIdle
    /\ \E a \in InitialAccounts :
          ssm = a.ssm /\ resources = a.resources /\ file \in a.files
    /\ gateways = {}
    /\ targets = {}
    /\ memories = {}
    /\ last = NoRun
    /\ cleanup_summary = EmptyLedger
    /\ sweeps = <<>>

StagesNext ==
    \/ \E outs \in PollPatterns :
          \E F \in (IF outs = SlowPoll THEN FaultSets(Lab2Faults)
                    ELSE {{}}) :
             Lab2Run(outs, F)
    \/ \E mem \in {None, Id("mem", 1)} :
          \E F \in (IF mem = None THEN {{}}
                    ELSE FaultSets(Lab3Faults) \cup {{"agent"}}) :
             Lab3Run(mem, F)
    \/ \E F \in FaultSets(Lab4Faults) : Lab4Run(F)
    \/ \E F \in FaultSets(Lab5Faults) : Lab5Run(F)
    \/ \E inp \in SweepInputs :
          \E F \in (IF inp[1] THEN {{}} ELSE FaultSets(Lab6Faults)) :
             Lab6Run(inp[1], inp[2], F)
    \/ \E K \in Lab3Interrupts : Lab3Run(Id("mem", 1), {K})
    \/ \E K \in Lab6Interrupts : Lab6Run(FALSE, "none", {K})

SpecStages == StagesInit /\ [][StagesNext]_vars

\* The environment the orchestrator specification leaves alone.
EnvIdle ==
    /\ file = NoFile
    /\ ssm = EmptyMap
    /\ gateways = {}
    /\ targets = {}
    /\ memories = {}
    /\ resources = {}
    /\ last = NoRun
    /\ cleanup_summary = EmptyLedger
    /\ sweeps = <<>>

OrchInit == OrchIdle /\ EnvIdle

OrchNext ==
    \/ \E cleanup \in BOOLEAN, all \in BOOLEAN, lab \in 0..NumLabs,
          inter \in BOOLEAN : ImplMain(cleanup, all, lab, inter)
    \/ \E credentials \in BOOLEAN, others \in BOOLEAN, ansAnyway \in Answers,
          ansReady \in Answers :
          LO_Begin(credentials, others, ansAnyway, ansReady)
    \/ \E outcome \in Outcomes, ansFail \in Answers, ansCont \in Answers :
          LO_Iter(outcome, ansFail, ansCont)
    \/ LO_Summary
    \/ \E outcome \in Outcomes : LO_Single(outcome)
    \/ \E ansSure \in Answers, outcome \in Outcomes : LO_Cleanup(ansSure, outcome)
    \/ \E lab \in 0..6, all \in BOOLEAN, non_interactive \in BOOLEAN :
          WorkMain(lab, all, non_interactive)
    \/ \E ansReady \in Answers : WR_Begin(ansReady)
    \/ \E outcome \in Outcomes, ansCont \in Answers, ansFail \in Answers :
          WR_Stage(outcome, ansCont, ansFail)
    \/ \E ansCleanup \in Answers, outcome \in Outcomes, ansFail \in Answers :
          WR_Summary(ansCleanup, outcome, ansFail)
    \/ \E outcome \in Outcomes, ansCont \in Answers, ansFail \in Answers :
          WR_Single(outcome, ansCont, ansFail)
    \/ Interrupt

SpecOrch == OrchInit /\ [][OrchNext]_vars

\* One session of either kind: an orchestrator is started in the untouched
\* account, or stages are run directly one after another.
SessionNext ==
    \/ EnvIdle /\ OrchNext
    \/ OrchIdle /\ StagesNext

SpecSession == StagesInit /\ [][SessionNext]_vars

\* ------------------------------------------------------------------
\* Properties of the orchestrators (checked under SpecOrch)
\* ------------------------------------------------------------------

\* The labs a run was asked to run.
RequestedLabs ==
    CASE mode = "all" /\ prog = "implement_labs" -> 1..NumLabs
      [] mode = "all" /\ prog = "run_workshop" ->
           {WorkshopLabs[i] : i \in 1..Len(WorkshopLabs)}
      [] mode = "lab" -> {idx}
      [] mode = "cleanup" -> {6}
      [] OTHER -> {}

\* Every requested lab was run and returned True.
AllRequestedSucceeded ==
    \A k \in RequestedLabs :
        \E p \in 1..Len(trace) : trace[p].lab = k /\ trace[p].outcome = "ok"

\* C1: in non-interactive mode, in both run_all_labs, once a stage returned
\* failure or raised, no later stage has its run() invoked.
C1_FailFast ==
    (mode = "all" /\ ~interactive) =>
        \A p, q \in 1..Len(trace) :
            (p < q /\ Failed(trace[p].outcome)) => ~RunInvoked(trace[q].outcome)

\* C1 witness: a finished batch run of LabOrchestrator whose third stage
\* failed after two stages succeeded.
C1_Witness ==
    /\ prog = "implement_labs" /\ mode = "all" /\ ~interactive
    /\ pc = "exited"
    /\ Len(trace) = 3
    /\ trace[1].outcome = "ok" /\ trace[2].outcome = "ok"
    /\ trace[3].outcome = "fail"

\* C7 (as claimed): in an interactive LabOrchestrator run where stages 1 and 2
\* succeed and the user continues, stage 3 fails and the user declines, the
\* run stops after stage 3 and the final report shows stages 1 and 2 as
\* succeeded, stage 3 as failed and nothing for stages 4 and 5.
C7_DeclineReport ==
    ( /\ prog = "implement_labs" /\ mode = "all" /\ interactive
      /\ pc = "exited"
      /\ Len(trace) >= 3
      /\ trace[1].outcome = "ok" /\ trace[1].contAns = "yes"
      /\ trace[2].outcome = "ok" /\ trace[2].contAns = "yes"
      /\ Failed(trace[3].outcome) /\ trace[3].failAns = "no" )
    => /\ Len(trace) = 3
       /\ report.shown
       /\ report.rows = (1 :> "Success") @@ (2 :> "Success") @@ (3 :> "Failed")

\* C8 (as claimed): a run of run_all_labs that started executing stages and
\* returned has produced the final report.
C8_ReportAlways ==
    (mode = "all" /\ pc = "exited" /\ trace # <<>>) => report.shown

\* C9 (as claimed): in interactive mode, in both run_all_labs, after a failed
\* stage the answer yes to the continue-despite-failure prompt leads to the
\* next stage being run, with no output of the failed stage handed to it, and
\* the answer no ends the run.
C9_ContinueAfterFailure ==
    (mode = "all" /\ interactive /\ pc = "exited") =>
        \A p \in 1..Len(trace) :
            /\ ( /\ Failed(trace[p].outcome)
                 /\ trace[p].failAns = "yes"
                 /\ trace[p].contAns # "no"
                 /\ trace[p].lab < NumLabs )
               => /\ p < Len(trace)
                  /\ trace[p + 1].lab > trace[p].lab
                  /\ trace[p + 1].arg = None
            /\ (Failed(trace[p].outcome) /\ trace[p].failAns = "no")
               => p = Len(trace)

\* C10 (as claimed): the exit code of either entry point is 0 exactly when
\* every requested stage succeeded, and 1 when a stage failed, the run was
\* aborted or the user interrupted.
C10_ExitCode ==
    Ended =>
        exit_code = IF pc = "exited" /\ AllRequestedSucceeded THEN {0} ELSE {1}

\* The last run made a call of this name.
Called(name) == \E i \in DOMAIN last.calls : last.calls[i] = name

\* A ledger holds an entry reporting a resource deleted.
HasDeleted(ledger) ==
    \E category \in DOMAIN ledger :
        \E i \in DOMAIN ledger[category] : ledger[category][i][1] = "deleted"

\* C2: after a successful run of Lab 2, Lab 3 or Lab 4, lab_config.json holds
\* every key the stage produced and every key it held before the run.
C2_MergeNoKeyLost ==
    (last.op \in {"lab2", "lab3", "lab4"} /\ last.result)
    => /\ file.exists
       /\ \A k \in DOMAIN last.ids : Has(file.data, k)
       /\ \A k \in DOMAIN last.prevFile.data : Has(file.data, k)

\* C3: a Lab 3 run given no memory_id, with nothing in lab_config.json,
\* returns False and makes no remote call.
C3_MissingDependency ==
    (/\ last.op = "lab3"
     /\ last.arg = None
     /\ DOMAIN last.prevFile.data = {})
    => ~last.result /\ last.calls = <<>>

\* C4: after a Lab 3 run that returned True, lab_config.json holds as
\* gateway_id and gateway_url the id and URL of the gateway the run found or
\* created, a gateway that exists; every other key the file held before the
\* run, memory_id among them, is still there with its value.
C4_GatewayKeysMerged ==
    (last.op = "lab3" /\ last.result)
    => /\ file.exists
       /\ last.ids["gateway_id"] \in gateways
       /\ Get(file.data, "gateway_id") = last.ids["gateway_id"]
       /\ Get(file.data, "gateway_url") = UrlOf(last.ids["gateway_id"])
       /\ \A k \in DOMAIN last.prevFile.data \ {"gateway_id", "gateway_url"} :
             Has(file.data, k) /\ file.data[k] = last.prevFile.data[k]

\* A Lab 3 run returned True starting from a file holding memory_id alone,
\* written by a Lab 2 run, and memory_id is still in the file.
C4_Witness ==
    /\ last.op = "lab3"
    /\ last.result
    /\ DOMAIN last.prevFile.data = {"memory_id"}
    /\ Truthy(last.prevFile.data["memory_id"])
    /\ Get(file.data, "memory_id") = last.prevFile.data["memory_id"]
    /\ Truthy(Get(file.data, "gateway_id"))

\* C5: a stage run when its resource already exists makes no creation call
\* for it: Lab 2 with a memory store in place does not call
\* create_memory_and_wait; Lab 3 with its gateway in place does not call
\* create_gateway, and with the target on that gateway does not call
\* create_gateway_target.
C5_FindOrCreate ==
    /\ (last.op = "lab2" /\ last.prevMemories # {})
       => ~Called("create_memory_and_wait")
    /\ (/\ last.op = "lab3"
        /\ Has(last.prevSsm, "gateway_id")
        /\ Get(last.prevSsm, "gateway_id") \in last.prevGateways)
       => ~Called("create_gateway")
    /\ (last.op = "lab3" /\ last.ids["gateway_id"] \in last.prevTargets)
       => ~Called("create_gateway_target")

Raised(e) == e.outcome \in {"raise_before", "raise_in"} /\ e.lab \in 1..NumLabs

\* C11: in a run of run_all_labs, every forward stage that ended in an
\* exception is recorded as failed: an entry with success false in
\* lab_results (LabOrchestrator), an entry in labs_failed (WorkshopRunner).
C11_RaiseRecorded ==
    mode = "all"
    => \A i \in DOMAIN trace :
          Raised(trace[i])
          => IF prog = "implement_labs"
             THEN /\ trace[i].lab \in DOMAIN lab_results
                  /\ ~lab_results[trace[i].lab].success
             ELSE \E j \in DOMAIN labs_failed : labs_failed[j] = trace[i].lab

\* ------------------------------------------------------------------
\* Further properties of the stages and the sweep (checked under SpecStages)
\* ------------------------------------------------------------------

\* The steps of a sweep, in the order run() enters them.
SweepOrder ==
    <<"load", "memory", "runtime", "gateway", "security", "observability",
      "files">>

\* The last run was a sweep that started (it was not cancelled at the
\* confirmation prompt).
SweepStarted == last.op = "lab6" /\ last.steps # <<"cancelled">>

\* C12: a sweep that started (and that no KeyboardInterrupt ended) loads the
\* configuration and enters the six category steps in the order memory,
\* runtime, gateway, security, observability, local files, whichever calls
\* failed; run() returns True unless displaying the closing summary raised.
C12_SweepRunsAllSteps ==
    (SweepStarted /\ ~last.interrupted)
    => /\ Len(last.steps) = Len(SweepOrder) + 1
       /\ SubSeq(last.steps, 1, Len(SweepOrder)) = SweepOrder
       /\ last.result = (last.steps[Len(SweepOrder) + 1] = "summary")

\* A sweep in which delete_memory raised (a warning is in the ledger) went
\* through all the steps, deleted a local file at the end, and returned True.
C12_Witness ==
    /\ SweepStarted
    /\ last.result
    /\ cleanup_summary["memory"] = <<Warning("memory")>>
    /\ Called("delete_memory")
    /\ cleanup_summary["files"] # <<>>

\* The delete calls of a sweep: for each, the ledger category of its resource
\* and the name its entries carry.
DeleteCalls ==
    [c \in {"delete_memory"} |-> <<"memory", "memory">>]
    @@ [c \in {"ecr.delete_repository"} |-> <<"runtime", "ecr">>]
    @@ [c \in {"iam.delete_role"} |-> <<"security", "iam_role">>]
    @@ [c \in {"cognito.delete_user_pool"} |-> <<"security", "pool">>]
    @@ [c \in {"secretsmanager.delete_secret"} |-> <<"security", "secret">>]
    @@ [c \in {"ssm.delete_parameter:" \o SweepParameters[i] :
                 i \in DOMAIN SweepParameters} |-> <<"security", "ssm">>]
    @@ [c \in {"logs.delete_log_group:" \o LogGroupPrefixes[i] :
                 i \in DOMAIN LogGroupPrefixes} |-> <<"observability", "lg">>]
    @@ [c \in {"remove:" \o ItemsToRemove[i] : i \in DOMAIN ItemsToRemove}
          |-> <<"files", "item">>]

\* The number of delete calls for a category in the last run's call log.
RECURSIVE DeleteCallsFor(_, _)
DeleteCallsFor(category, i) ==
    IF i = 0 THEN 0
    ELSE DeleteCallsFor(category, i - 1)
         + (IF /\ last.calls[i] \in DOMAIN DeleteCalls
               /\ DeleteCalls[last.calls[i]][1] = category
            THEN 1 ELSE 0)

\* C13: after a sweep, every delete call it made has an outcome entry in the
\* ledger under its resource's category, the failed ones included: a
\* category holds at least as many entries as delete calls were made for it.
C13_FailedDeletesRecorded ==
    SweepStarted
    => \A category \in DOMAIN cleanup_summary :
          Len(cleanup_summary[category])
             >= DeleteCallsFor(category, Len(last.calls))

\* The keys a load reads both from lab_config.json and from SSM.
KeysReadTwice(op) ==
    IF op = "lab6" THEN {"runtime_arn", "gateway_url", "pool_id"}
    ELSE IF op = "lab5" THEN {"runtime_arn"}
    ELSE {}

\* C14: after a load of Lab 6 or Lab 5, for every key read from both the
\* file and SSM whose SSM lookup was made and whose parameter exists, the
\* loaded value is the remote one, whatever the file holds and whichever
\* other parameters are missing.
C14_RemoteWins ==
    \A k \in KeysReadTwice(last.op) :
       (Called("ssm.get_parameter:" \o k) /\ Has(last.prevSsm, k))
       => Get(last.ids, k) = last.prevSsm[k]

\* C15: after a successful run of Lab 2, Lab 3 or Lab 4, every identifier the
\* run wrote to lab_config.json is also an SSM parameter with the same value.
C15_MirroredInSsm ==
    (last.op \in {"lab2", "lab3", "lab4"} /\ last.result)
    => \A k \in DOMAIN last.ids :
          Truthy(Get(file.data, k))
          => Has(ssm, k) /\ ssm[k] = file.data[k]

\* ------------------------------------------------------------------
\* Further properties of the orchestrators, continued (under SpecOrch)
\* ------------------------------------------------------------------

\* C16: in a run of LabOrchestrator.run_all_labs whose AWS credentials check
\* failed, no stage's run() is invoked, unless the interactive user answered
\* yes to "Do you want to continue anyway?".
C16_NoStageWithoutCredentials ==
    (/\ prog = "implement_labs"
     /\ mode = "all"
     /\ checks.done
     /\ ~checks.credentials
     /\ checks.anyway # "yes")
    => \A i \in DOMAIN trace : ~RunInvoked(trace[i].outcome)

\* Every stage the run reached succeeded, as far as the code lets it: its
\* run() returned True, or the code of the orchestrator leaves its call no
\* other end than an exception before run().
EveryStageSucceeded ==
    \A i \in DOMAIN trace :
       \/ trace[i].outcome = "ok"
       \/ (prog = "implement_labs"
           /\ LabOutcomes(trace[i].lab) = {trace[i].outcome})

\* C17: a finished non-interactive run of run_all_labs in which every stage
\* succeeded has invoked run() of the stages 1 to 5 once each in ascending
\* order, has shown no prompt, and has all five recorded as succeeded.
C17_BatchRunsAllStages ==
    (/\ mode = "all" /\ ~interactive
     /\ pc = "exited"
     /\ EveryStageSucceeded)
    => /\ Len(trace) = NumLabs
       /\ \A i \in DOMAIN trace :
             /\ trace[i].lab = i
             /\ trace[i].outcome = "ok"
             /\ trace[i].failAns = "none"
             /\ trace[i].contAns = "none"
       /\ IF prog = "implement_labs"
          THEN \A k \in 1..NumLabs :
                  k \in DOMAIN lab_results /\ lab_results[k].success
          ELSE labs_completed = [k \in 1..NumLabs |-> k]

\* C18: when a KeyboardInterrupt arrived during a call of a stage or of the
\* sweep, the run ended there: the interrupt left run(), and the call it
\* arrived in is the last remote call of the run (no lookup, create or delete
\* follows it).
C18_InterruptEndsRun ==
    last.intrAt > 0
    => /\ last.interrupted
       /\ Len(last.calls) = last.intrAt

\* How often the last run made a call.
CallCount(name) == Cardinality({i \in DOMAIN last.calls : last.calls[i] = name})

\* The last run made a call whose name starts with the prefix.
CalledWithPrefix(prefix) ==
    \E i \in DOMAIN last.calls :
       /\ Len(last.calls[i]) >= Len(prefix)
       /\ SubSeq(last.calls[i], 1, Len(prefix)) = prefix

\* The arrivals the existence check of the gateway takes for "absent".
CheckFaults == {"get_gateway", "interrupt:get_parameter:gateway_id"}

\* C19: in a Lab 3 run that reached the existence check of create_gateway,
\* create_gateway is called once when the check raised and not at all when
\* it succeeded; a check that raised, with nothing else going wrong, leaves
\* the run successful; a check that succeeded adopts the id found in SSM and
\* its URL and issues no create and no parameter write.
C19_CreateIffCheckRaises ==
    (last.op = "lab3" /\ last.check # "none")
    => /\ CallCount("create_gateway") = (IF last.check = "raised" THEN 1 ELSE 0)
       /\ (/\ last.check = "raised"
           /\ last.faults \subseteq CheckFaults
           /\ Cardinality(last.prevGateways) < MaxIds)
          => last.result
       /\ last.check = "found"
          => /\ last.ids["gateway_id"] = last.prevSsm["gateway_id"]
             /\ last.ids["gateway_url"] = UrlOf(last.prevSsm["gateway_id"])
             /\ ~CalledWithPrefix("ssm.put_parameter")
             /\ ssm = last.prevSsm
             /\ gateways = last.prevGateways

\* A Lab 3 run found the gateway's id in SSM and the gateway on the platform,
\* the existence check raised all the same, and the run created a second
\* gateway and succeeded.
C19_Witness ==
    /\ last.op = "lab3" /\ last.check = "raised"
    /\ Has(last.prevSsm, "gateway_id")
    /\ last.prevSsm["gateway_id"] \in last.prevGateways
    /\ CallCount("create_gateway") = 1
    /\ last.result
    /\ Cardinality(gateways) = 2

\* A call whose name holds the word "delete".
IsDelete(name) ==
    \E i \in 1..Len(name) :
       i + 5 <= Len(name) /\ SubSeq(name, i, i + 5) = "delete"

\* The last run was a Lab 3 run that created the gateway, went on to the
\* later steps, and had the agent creation or the test fail.
FailedAfterCreation ==
    /\ last.op = "lab3" /\ last.check = "raised"
    /\ CallCount("create_gateway_target") = 1
    /\ last.faults \cap {"agent", "test"} # {}

\* C20: a Lab 3 run whose agent creation or test failed after it had created
\* the gateway returns False and undoes nothing: the gateway exists, the SSM
\* parameters gateway_id and gateway_url hold the values written at the
\* creation, and the run made no delete call.
C20_NoRollback ==
    FailedAfterCreation
    => /\ ~last.result
       /\ last.ids["gateway_id"] \in gateways \ last.prevGateways
       /\ Has(ssm, "gateway_id") /\ ssm["gateway_id"] = last.ids["gateway_id"]
       /\ Has(ssm, "gateway_url")
       /\ ssm["gateway_url"] = UrlOf(last.ids["gateway_id"])
       /\ \A i \in DOMAIN last.calls : ~IsDelete(last.calls[i])
       /\ file = last.prevFile

\* A Lab 3 run created a gateway and then failed its test.
C20_Witness ==
    /\ FailedAfterCreation
    /\ ~last.result
    /\ CallCount("create_gateway") = 1
    /\ "test" \in last.faults
    /\ gateways # last.prevGateways

\* ------------------------------------------------------------------
\* Properties of the stages' steps and files (checked under SpecStages)
\* ------------------------------------------------------------------

\* The last run entered the step.
Entered(step) == \E i \in DOMAIN last.steps : last.steps[i] = step

\* The last run was a Lab 3 run whose target attachment failed: the call was
\* made to raise, or the platform refused a second target on the gateway.
TargetAttachmentFailed ==
    /\ last.op = "lab3"
    /\ Entered("target")
    /\ \/ "create_gateway_target" \in last.faults
       \/ last.ids["gateway_id"] \in last.prevTargets

\* The last run was a Lab 3 run whose gateway creation failed: the existence
\* check raised and create_gateway, or a parameter write after it, raised.
GatewayCreationFailed ==
    /\ last.op = "lab3"
    /\ last.check = "raised"
    /\ ~last.interrupted
    /\ \/ "create_gateway" \in last.faults
       \/ "put:gateway_id" \in last.faults
       \/ last.ids["gateway_id"] = None

\* C21: in a Lab 3 run a failed target attachment does not end the run (the
\* agent step is entered, and with the agent step and the test succeeding
\* the run returns True and saves the configuration); a failed gateway
\* creation ends it with False, and none of the target, agent, test and
\* save steps is entered.
C21_Criticality ==
    /\ TargetAttachmentFailed
       => /\ Entered("agent")
          /\ (last.faults \cap {"agent", "test"} = {})
             => (last.result /\ Entered("save") /\ file.exists)
    /\ GatewayCreationFailed
       => /\ ~last.result
          /\ last.steps = <<"cognito", "gateway">>
          /\ ~Called("create_gateway_target")
          /\ file = last.prevFile

\* A Lab 3 run created the gateway, had create_gateway_target raise, and
\* returned True after the test.
C21_Witness ==
    /\ TargetAttachmentFailed
    /\ "create_gateway_target" \in last.faults
    /\ Entered("test")
    /\ last.result
    /\ last.ids["gateway_id"] \notin targets

\* The last run was a run of a forward stage (Lab 2, 3, 4 or 5).
ForwardRun == last.op \in {"lab2", "lab3", "lab4", "lab5"}

\* C22: a run of Lab 2, 3, 4 or 5 that returned False, whichever step
\* failed, left lab_config.json as it was before the run.
C22_FailedRunKeepsFile ==
    (ForwardRun /\ ~last.result) => file = last.prevFile

\* A Lab 3 run went through every step up to the test, failed there, and the
\* lab_config.json that was there before is unchanged.
C22_Witness ==
    /\ last.op = "lab3" /\ ~last.result
    /\ Entered("test")
    /\ last.prevFile.exists
    /\ file = last.prevFile

\* ------------------------------------------------------------------
\* Further properties of the sweep (checked under SpecStages)
\* ------------------------------------------------------------------

\* The last run was a sweep that started, was not interrupted, and could
\* create its clients (it got as far as calling iam.delete_role).
SweepWithClients ==
    SweepStarted /\ ~last.interrupted /\ Called("iam.delete_role")

\* C23: a sweep attempts the deletion of every resource it knows by a fixed
\* name, whatever the configuration holds: the ECR repository, the IAM role,
\* each listed SSM parameter, the secret, the log groups under each prefix,
\* and lab_config.json when it is there.
C23_ConventionalNamesAttempted ==
    SweepWithClients
    => /\ Called("ecr.delete_repository")
       /\ Called("iam.delete_role")
       /\ \A i \in DOMAIN SweepParameters :
             Called("ssm.delete_parameter:" \o SweepParameters[i])
       /\ Called("secretsmanager.delete_secret")
       /\ \A i \in DOMAIN LogGroupPrefixes :
             Called("logs.describe_log_groups:" \o LogGroupPrefixes[i])
       /\ last.prevFile.exists => Called("remove:lab_config.json")

\* ------------------------------------------------------------------
\* Further properties of the stages (checked under SpecStages)
\* ------------------------------------------------------------------

\* The last run was a Lab 2 run that reached its wait for the memory.
WaitReached == last.op = "lab2" /\ Entered("wait")

\* The first attempt of the last Lab 2 run's wait whose result is of one of
\* the kinds, or max_retries when there is none.
FirstAttempt(kinds) ==
    IF \E i \in 1..max_retries : last.arg[i] \in kinds
    THEN CHOOSE i \in 1..max_retries :
            /\ last.arg[i] \in kinds
            /\ \A j \in 1..(i - 1) : last.arg[j] \notin kinds
    ELSE max_retries

\* C24 as stated: the wait makes at most max_retries retrieve_memories
\* calls, stops at the first call that returns a non-empty result whatever
\* that result is, and returns True (the run goes on to the hooks step).
C24_StopsAtFirstNonEmpty ==
    WaitReached
    => /\ CallCount("retrieve_memories") <= max_retries
       /\ CallCount("retrieve_memories") = FirstAttempt({"found", "unreadable"})
       /\ Entered("hooks")

\* C24, amended: the wait makes at most max_retries retrieve_memories calls,
\* stops at the first call whose non-empty result it can display (an empty
\* result, a raising call and a result it cannot display lead to the next
\* attempt), and returns True in every case.
C24_WaitBounded ==
    WaitReached
    => /\ CallCount("retrieve_memories") <= max_retries
       /\ CallCount("retrieve_memories") = FirstAttempt({"found"})
       /\ Entered("hooks")

\* A Lab 2 run polled max_retries times without a result (one poll raised,
\* the others were empty) and succeeded all the same.
C24_Witness ==
    /\ WaitReached
    /\ \E i \in 1..max_retries : last.arg[i] = "raise"
    /\ CallCount("retrieve_memories") = max_retries
    /\ last.result

\* The identifiers a stage reports and writes to lab_config.json.
PersistedKeys(op) ==
    IF op = "lab2" THEN {"memory_id"}
    ELSE IF op = "lab3" THEN {"gateway_id", "gateway_url"}
    ELSE IF op = "lab4" THEN {"runtime_arn"}
    ELSE {}

\* C25: when a run of Lab 2, 3 or 4 returned True, each identifier it
\* reports is a value (not None) and lab_config.json holds that value.
C25_IdentifiersReal ==
    (last.op \in {"lab2", "lab3", "lab4"} /\ last.result)
    => \A k \in PersistedKeys(last.op) :
          /\ last.ids[k] # None
          /\ Has(file.data, k) /\ file.data[k] = last.ids[k]

\* The delete call that removes the remote resource a ledger entry names.
DeleteCallOf(what) ==
    IF what = "memory" THEN "delete_memory"
    ELSE IF what = "runtime" THEN "delete_agent_runtime"
    ELSE IF what = "gateway" THEN "delete_gateway"
    ELSE IF what = "ecr" THEN "ecr.delete_repository"
    ELSE IF what = "iam_role" THEN "iam.delete_role"
    ELSE IF what = "pool" THEN "cognito.delete_user_pool"
    ELSE IF what = "secret" THEN "secretsmanager.delete_secret"
    ELSE IF Len(what) > 4 /\ SubSeq(what, 1, 4) = "ssm:"
         THEN "ssm.delete_parameter:" \o SubSeq(what, 5, Len(what))
    ELSE "logs.delete_log_group:" \o what

\* The ledger categories of remote resources.
RemoteCategories ==
    {"memory", "runtime", "gateway", "security", "observability"}

\* C26: after a sweep, every ledger entry that reports a remote resource as
\* deleted has its delete call in the sweep's call log.
C26_DeletedOnlyAfterDelete ==
    SweepStarted
    => \A cat \in RemoteCategories :
          \A i \in DOMAIN cleanup_summary[cat] :
             cleanup_summary[cat][i][1] = "deleted"
             => Called(DeleteCallOf(cleanup_summary[cat][i][2]))

\* The last run was a sweep in which no call failed for a reason of its own.
CleanSweep ==
    /\ SweepStarted
    /\ ~last.interrupted
    /\ sweeps # <<>>
    /\ sweeps[Len(sweeps)].clean

\* The SSM parameters the forward stages write.
StageParameters == {"gateway_id", "gateway_url"}

\* C27: after a sweep in which no call failed, lab_config.json does not
\* exist and none of the SSM parameters written by a forward stage is left
\* (so the next Lab 3 run would find no gateway_id to adopt).
C27_NothingPersistedRemains ==
    CleanSweep
    => /\ ~file.exists
       /\ \A k \in StageParameters : ~Has(ssm, k)

\* C28: a sweep that follows nothing but successful runs of forward stages
\* attempts the deletion of what those runs recorded: each memory by its
\* memory_id, and for a recorded runtime_arn the runtime and its ECR
\* repository.
C28_SweepCoversRecorded ==
    (SweepWithClients /\ last.prevAllOk)
    => \A r \in last.recorded :
          /\ (r[1] = "memory_id" /\ r[2] # None)
             => /\ Called("delete_memory")
                /\ Get(last.ids, "memory_id") = r[2]
          /\ (r[1] = "runtime_arn" /\ r[2] # None)
             => Called("ecr.delete_repository")

\* ------------------------------------------------------------------
\* Properties of the summary and of the cleanup's confirmation
\* ------------------------------------------------------------------

\* C29: when LabOrchestrator.show_summary reports that all labs completed
\* successfully, all five forward stages are recorded in lab_results with
\* success true.
C29_AllSuccessMeansAllFive ==
    (prog = "implement_labs" /\ report.shown /\ report.all_success)
    => \A k \in 1..NumLabs :
          k \in DOMAIN lab_results /\ lab_results[k].success

\* The last run was an interactive sweep whose prompt was not answered yes.
Declined == last.op = "lab6" /\ last.arg[1] /\ last.arg[2] # "yes"

\* The non-interactive WorkshopRunner.run_all_labs.
BatchWorkshop == prog = "run_workshop" /\ mode = "all" /\ ~interactive

\* C30: an interactive sweep that was not confirmed returns False having
\* made no call at all (no deletion, no file removal), with the file, the
\* parameters, every resource and the ledger as they were; and the
\* non-interactive WorkshopRunner.run_all_labs never runs the sweep.
C30_NoCleanupUnconfirmed ==
    /\ Declined
       => /\ ~last.result
          /\ last.calls = <<>>
          /\ file = last.prevFile
          /\ ssm = last.prevSsm
          /\ memories = last.prevMemories
          /\ resources = last.prevResources
          /\ gateways = last.prevGateways
          /\ targets = last.prevTargets
          /\ cleanup_summary = EmptyLedger
    /\ BatchWorkshop
       => \A i \in 1..Len(trace) : trace[i].lab # 6

\* A sweep declined while a memory, a configuration file and account
\* resources were there to be deleted.
C30_Witness ==
    /\ Declined
    /\ last.prevMemories # {}
    /\ last.prevFile.exists
    /\ last.prevResources # {}

\* The non-interactive workshop ended after the last of its stages.
C30_BatchEnded ==
    BatchWorkshop /\ pc = "exited" /\ Len(trace) = Len(WorkshopLabs)

====
